---- MODULE Spec2Model ----
(***************************************************************************)
(* Model of KTBsomen/pdf-encrypt-decrypt: the Node.js wrapper (index.js,   *)
(* listed in example.ts), the Go engine (src/main.go) behind the Koffi     *)
(* bridge, and the part of pdfcpu the engine calls.                        *)
(*                                                                         *)
(* Texts that the code inspects character by character (JSON, Base64, the  *)
(* "Error" prefix, permission names) are sequences of one-character        *)
(* strings.  Passwords are only compared for equality and emptiness and    *)
(* are TLA+ strings; they are NUL-free, as the char* signatures require.   *)
(* Buffers are sequences of bytes 0..255.                                  *)
(***************************************************************************)
EXTENDS Naturals, Integers, Sequences, FiniteSets, TLC

\* platform, arch: process.platform and process.arch of the host
\* lib:     the module-level library binding (libraryPath, lib, EncryptPDF,
\*          DecryptPDF), or the Error thrown while loading
\* enc:     the encrypted buffer the caller holds, returned by encCall
\* encCall: the encryptPDF call that returned enc
\* last:    the most recent call and everything it did; in the
\*          specifications that follow one function statement by statement
\*          (DecryptPDF, runTest), its locals and its position
VARIABLES platform, arch, lib, enc, encCall, last

vars == <<platform, arch, lib, enc, encCall, last>>

\* ------------------------------------------------------------------ bounds
\* longest permission list handed to buildPermissionMask on its own
MaxPermLen == 2

\* ------------------------------------------------------------- characters
Upper == <<"A","B","C","D","E","F","G","H","I","J","K","L","M",
           "N","O","P","Q","R","S","T","U","V","W","X","Y","Z">>

Lower == <<"a","b","c","d","e","f","g","h","i","j","k","l","m",
           "n","o","p","q","r","s","t","u","v","w","x","y","z">>

Digits == <<"0","1","2","3","4","5","6","7","8","9">>

\* String.prototype.startsWith
StartsWith(t, p) == Len(t) >= Len(p) /\ SubSeq(t, 1, Len(p)) = p

\* one character of strings.ToLower
LowerChar(c) ==
  IF \E i \in 1..26 : Upper[i] = c
  THEN Lower[CHOOSE i \in 1..26 : Upper[i] = c]
  ELSE c

\* strings.ToLower
ToLower(t) == [i \in 1..Len(t) |-> LowerChar(t[i])]

\* --------------------------------------------------------------- Base64
\* the alphabet of base64.StdEncoding
B64Chars == Upper \o Lower \o Digits \o <<"+", "/">>

\* the padding character of base64.StdEncoding
B64Pad == "="

\* the character of a 6-bit value
B64Char(v) == B64Chars[v + 1]

RECURSIVE B64Encode(_)
\* base64.StdEncoding.Encode: three bytes to four characters, "=" padding
B64Encode(bs) ==
  IF Len(bs) = 0 THEN <<>>
  ELSE IF Len(bs) = 1 THEN
    << B64Char(bs[1] \div 4), B64Char((bs[1] % 4) * 16), B64Pad, B64Pad >>
  ELSE IF Len(bs) = 2 THEN
    << B64Char(bs[1] \div 4),
       B64Char((bs[1] % 4) * 16 + bs[2] \div 16),
       B64Char((bs[2] % 16) * 4), B64Pad >>
  ELSE
    << B64Char(bs[1] \div 4),
       B64Char((bs[1] % 4) * 16 + bs[2] \div 16),
       B64Char((bs[2] % 16) * 4 + bs[3] \div 64),
       B64Char(bs[3] % 64) >> \o B64Encode(SubSeq(bs, 4, Len(bs)))

\* whether c is a character of the alphabet
IsB64Char(c) == \E i \in 1..64 : B64Chars[i] = c

\* the 6-bit value of a character of the alphabet
B64Value(c) == (CHOOSE i \in 1..64 : B64Chars[i] = c) - 1

RECURSIVE B64Symbols(_)
\* the 6-bit values Buffer.from(text, 'base64') reads: characters outside the
\* alphabet are skipped and the first "=" ends the data
B64Symbols(t) ==
  IF t = <<>> \/ Head(t) = B64Pad THEN <<>>
  ELSE IF IsB64Char(Head(t)) THEN <<B64Value(Head(t))>> \o B64Symbols(Tail(t))
  ELSE B64Symbols(Tail(t))

RECURSIVE B64Bytes(_)
\* four 6-bit values to three bytes; a trailing group gives the bytes it holds
B64Bytes(vs) ==
  IF Len(vs) < 2 THEN <<>>
  ELSE IF Len(vs) = 2 THEN << vs[1] * 4 + vs[2] \div 16 >>
  ELSE IF Len(vs) = 3 THEN
    << vs[1] * 4 + vs[2] \div 16, (vs[2] % 16) * 16 + vs[3] \div 4 >>
  ELSE
    << vs[1] * 4 + vs[2] \div 16,
       (vs[2] % 16) * 16 + vs[3] \div 4,
       (vs[3] % 4) * 64 + vs[4] >> \o B64Bytes(SubSeq(vs, 5, Len(vs)))

\* Buffer.from(text, 'base64')
BufferFromBase64(t) == B64Bytes(B64Symbols(t))

\* ------------------------------------------------- permission vocabulary
\* the Go constants PermPrint .. PermDefault, and the values of the wrapper's
\* PDFPermission table
PermPrint == <<"p","r","i","n","t">>

PermCopy == <<"c","o","p","y">>

PermModify == <<"m","o","d","i","f","y">>

PermAnnotate == <<"a","n","n","o","t","a","t","e">>

PermForms == <<"f","o","r","m","s">>

PermAssemble == <<"a","s","s","e","m","b","l","e">>

PermAll == <<"a","l","l">>

PermDefault == <<"d","e","f","a","u","l","t">>

\* the wrapper's exported constant table
PDFPermission ==
  [ PRINT |-> PermPrint, COPY |-> PermCopy, ANNOTATE |-> PermAnnotate,
    MODIFY |-> PermModify, FORMS |-> PermForms, ASSEMBLE |-> PermAssemble,
    ALL |-> PermAll, DEFAULT |-> PermDefault ]

\* the names buildPermissionMask has a case for
RecognizedNames ==
  { PermPrint, PermCopy, PermAnnotate, PermForms, PermAssemble, PermAll,
    PermModify, PermDefault }

\* pdfcpu's model.PermissionFlags: one bit per permission of the PDF
\* standard security handler; PermissionsNone grants nothing and
\* PermissionsAll grants every permission
PermissionPrintRev2 == 4

PermissionModify == 8

PermissionExtract == 16

PermissionModAnnFillForm == 32

PermissionFillRev3 == 256

PermissionExtractRev3 == 512

PermissionAssembleRev3 == 1024

PermissionPrintRev3 == 2048

PermissionsNone == 0

PermissionsAll ==
  PermissionPrintRev2 + PermissionModify + PermissionExtract
  + PermissionModAnnFillForm + PermissionFillRev3 + PermissionExtractRev3
  + PermissionAssembleRev3 + PermissionPrintRev3

RECURSIVE BitOr(_, _)
\* Go's | on two non-negative flag values
BitOr(a, b) ==
  IF a = 0 THEN b
  ELSE IF b = 0 THEN a
  ELSE (IF a % 2 = 1 \/ b % 2 = 1 THEN 1 ELSE 0) + 2 * BitOr(a \div 2, b \div 2)

\* the switch with the default case assigning the mask (mask = in place of
\* mask |=)
MaskStepDefaultResets(mask, p) ==
  LET name == ToLower(p) IN
  IF name = PermPrint THEN BitOr(mask, PermissionPrintRev3)
  ELSE IF name = PermCopy THEN BitOr(mask, PermissionExtract)
  ELSE IF name = PermAnnotate THEN BitOr(mask, PermissionModAnnFillForm)
  ELSE IF name = PermForms THEN BitOr(mask, PermissionFillRev3)
  ELSE IF name = PermAssemble THEN BitOr(mask, PermissionAssembleRev3)
  ELSE IF name = PermAll THEN BitOr(mask, PermissionsAll)
  ELSE IF name = PermModify THEN BitOr(mask, PermissionModify)
  ELSE IF name = PermDefault THEN PermissionsNone
  ELSE mask

\* the switch with a default branch that grants printing
MaskStepUnknownAsPrint(mask, p) ==
  LET name == ToLower(p) IN
  IF name = PermPrint THEN BitOr(mask, PermissionPrintRev3)
  ELSE IF name = PermCopy THEN BitOr(mask, PermissionExtract)
  ELSE IF name = PermAnnotate THEN BitOr(mask, PermissionModAnnFillForm)
  ELSE IF name = PermForms THEN BitOr(mask, PermissionFillRev3)
  ELSE IF name = PermAssemble THEN BitOr(mask, PermissionAssembleRev3)
  ELSE IF name = PermAll THEN BitOr(mask, PermissionsAll)
  ELSE IF name = PermModify THEN BitOr(mask, PermissionModify)
  ELSE IF name = PermDefault THEN BitOr(mask, PermissionsNone)
  ELSE BitOr(mask, PermissionPrintRev3)

\* one pass of the loop body of buildPermissionMask: the switch on the
\* lower-cased name
MaskStep(mask, p) ==
  LET name == ToLower(p) IN
  IF name = PermPrint THEN BitOr(mask, PermissionPrintRev3)
  ELSE IF name = PermCopy THEN BitOr(mask, PermissionExtract)
  ELSE IF name = PermAnnotate THEN BitOr(mask, PermissionModAnnFillForm)
  ELSE IF name = PermForms THEN BitOr(mask, PermissionFillRev3)
  ELSE IF name = PermAssemble THEN BitOr(mask, PermissionAssembleRev3)
  ELSE IF name = PermAll THEN BitOr(mask, PermissionsAll)
  ELSE IF name = PermModify THEN BitOr(mask, PermissionModify)
  ELSE IF name = PermDefault THEN BitOr(mask, PermissionsNone)
  ELSE mask

RECURSIVE MaskLoop(_, _)
\* for _, p := range perms, from the mask built so far
MaskLoop(mask, perms) ==
  IF perms = <<>> THEN mask ELSE MaskLoop(MaskStep(mask, Head(perms)), Tail(perms))

\* buildPermissionMask with the copy case also setting the modify flag
buildPermissionMaskExtraBit(perms) ==
  LET m == MaskLoop(0, perms) IN
  IF \E i \in 1..Len(perms) : ToLower(perms[i]) = PermCopy
  THEN BitOr(m, PermissionModify) ELSE m

\* buildPermissionMask
buildPermissionMask(perms) == MaskLoop(0, perms)

\* ------------------------------------------------------------------ JSON
Quote == "\""

JSONNull == <<"n","u","l","l">>

RECURSIVE JoinQuoted(_)
\* the elements of a JSON array of strings, comma separated
JoinQuoted(list) ==
  IF list = <<>> THEN <<>>
  ELSE <<Quote>> \o Head(list) \o <<Quote>>
       \o (IF Len(list) > 1 THEN <<",">> ELSE <<>>) \o JoinQuoted(Tail(list))

\* JSON.stringify of an array of strings (the names hold no character that
\* needs an escape)
JSONStringify(list) == <<"[">> \o JoinQuoted(list) \o <<"]">>

RECURSIVE ReadString(_, _)
\* the characters up to the closing quote, and the text after it
ReadString(t, acc) ==
  IF t = <<>> THEN [ok |-> FALSE, str |-> <<>>, rest |-> <<>>]
  ELSE IF Head(t) = Quote THEN [ok |-> TRUE, str |-> acc, rest |-> Tail(t)]
  ELSE ReadString(Tail(t), Append(acc, Head(t)))

\* a JSON value as json.Unmarshal scans it: whether the text so far is
\* valid, the kind of the value, the characters of a string, the elements of
\* an array (kind and characters of each), and the text after the value
Scanned(kind, str, elems, rest) ==
  [ok |-> TRUE, kind |-> kind, str |-> str, elems |-> elems, rest |-> rest]

ScanFailed ==
  [ok |-> FALSE, kind |-> "invalid", str |-> <<>>, elems |-> <<>>, rest |-> <<>>]

JSONTrue == <<"t","r","u","e">>

JSONFalse == <<"f","a","l","s","e">>

IsDigit(c) == \E i \in 1..10 : Digits[i] = c

RECURSIVE SkipSpace(_)
\* the text after its leading blanks
SkipSpace(t) == IF t # <<>> /\ Head(t) = " " THEN SkipSpace(Tail(t)) ELSE t

RECURSIVE SkipDigits(_)
\* the text after its leading digits
SkipDigits(t) == IF t # <<>> /\ IsDigit(Head(t)) THEN SkipDigits(Tail(t)) ELSE t

RECURSIVE ScanValue(_)
RECURSIVE ScanElements(_, _)
\* one JSON value at the head of the text: a string without escapes, an
\* array, the empty object, null, true, false, or an unsigned integer
ScanValue(t0) ==
  LET t == SkipSpace(t0) IN
  IF t = <<>> THEN ScanFailed
  ELSE IF Head(t) = Quote THEN
    LET s == ReadString(Tail(t), <<>>) IN
    IF s.ok THEN Scanned("string", s.str, <<>>, s.rest) ELSE ScanFailed
  ELSE IF Head(t) = "[" THEN ScanElements(Tail(t), <<>>)
  ELSE IF Head(t) = "{" THEN
    LET r == SkipSpace(Tail(t)) IN
    IF r # <<>> /\ Head(r) = "}" THEN Scanned("object", <<>>, <<>>, Tail(r))
    ELSE ScanFailed
  ELSE IF StartsWith(t, JSONNull) THEN Scanned("null", <<>>, <<>>, SubSeq(t, 5, Len(t)))
  ELSE IF StartsWith(t, JSONTrue) THEN Scanned("bool", <<>>, <<>>, SubSeq(t, 5, Len(t)))
  ELSE IF StartsWith(t, JSONFalse) THEN Scanned("bool", <<>>, <<>>, SubSeq(t, 6, Len(t)))
  ELSE IF IsDigit(Head(t)) THEN Scanned("number", <<>>, <<>>, SkipDigits(t))
  ELSE ScanFailed

\* the elements of an array, t0 standing after "[" or after a ","
ScanElements(t0, acc) ==
  LET t == SkipSpace(t0) IN
  IF t = <<>> THEN ScanFailed
  ELSE IF Head(t) = "]" THEN
    IF acc = <<>> THEN Scanned("array", <<>>, <<>>, Tail(t)) ELSE ScanFailed
  ELSE
    LET v == ScanValue(t)
        r == SkipSpace(v.rest)
        e == [kind |-> v.kind, str |-> v.str]
    IN IF ~v.ok \/ r = <<>> THEN ScanFailed
       ELSE IF Head(r) = "," THEN ScanElements(Tail(r), Append(acc, e))
       ELSE IF Head(r) = "]" THEN Scanned("array", <<>>, Append(acc, e), Tail(r))
       ELSE ScanFailed

\* the whole text as one JSON value (checkValid), blanks allowed around it
JSONScan(t) ==
  LET v == ScanValue(t) IN
  IF v.ok /\ SkipSpace(v.rest) = <<>> THEN v ELSE ScanFailed

\* json.Unmarshal([]byte(text), &permissions) on a nil []string: the list
\* decoded, and whether an error was returned.  A text that is not valid
\* JSON is rejected before anything is decoded and the target stays nil;
\* null sets it to nil without an error; a value that is no array is a type
\* error and the target stays nil; an array is decoded element by element,
\* a string as itself, a null as the empty string without an error, any
\* other element as the empty string with a type error reported at the end.
JSONUnmarshal(t) ==
  LET v == JSONScan(t) IN
  IF ~v.ok THEN [ok |-> FALSE, list |-> <<>>]
  ELSE IF v.kind = "null" THEN [ok |-> TRUE, list |-> <<>>]
  ELSE IF v.kind = "array" THEN
    [ok |-> \A i \in 1..Len(v.elems) : v.elems[i].kind \in {"string", "null"},
     list |-> [i \in 1..Len(v.elems) |->
                 IF v.elems[i].kind = "string" THEN v.elems[i].str ELSE <<>>]]
  ELSE [ok |-> FALSE, list |-> <<>>]

\* ----------------------------------------------------------------- texts
\* the prefix both wrappers test with startsWith
ErrorPrefix ==
  <<"E","r","r","o","r">>

\* the format of EncryptPDF's failure text, up to %v
EncryptErrorFormat ==
  <<"E","r","r","o","r"," ","e","n","c","r","y","p","t","i","n","g"," ",
    "P","D","F",":"," ">>

\* the format of DecryptPDF's failure text, up to %v
DecryptErrorFormat ==
  <<"E","r","r","o","r"," ","d","e","c","r","y","p","t","i","n","g"," ",
    "P","D","F",":"," ">>

\* the message encryptPDF throws on a falsy native result
EncryptionReturnedNull ==
  <<"E","n","c","r","y","p","t","i","o","n"," ","r","e","t","u","r","n",
    "e","d"," ","n","u","l","l">>

\* the message decryptPDF throws on a falsy native result
DecryptionReturnedNull ==
  <<"D","e","c","r","y","p","t","i","o","n"," ","r","e","t","u","r","n",
    "e","d"," ","n","u","l","l">>

\* ---------------------------------------------------- pdfcpu, as called
\* The engine delegates parsing and cryptography to pdfcpu (api.Encrypt,
\* api.Decrypt, model.NewAESConfiguration, model.NewDefaultConfiguration).
\* A document is abstracted to what the engine's callers can observe: which
\* document it is, whether it is encrypted, and under which passwords and
\* permission mask.  Its bytes are a fixed serialisation of that:
\*   plain      <<37, 80, id, form>>          form 1: rewritten by pdfcpu
\*   encrypted  <<37, 69, id, upw, opw, permissions high, permissions low>>

\* the passwords of the model; a document stores a password by its position
PasswordTable == <<"", "user123", "owner123", "wrongpassword">>

Passwords == {PasswordTable[i] : i \in 1..Len(PasswordTable)}

PwCode(pw) == CHOOSE i \in 1..Len(PasswordTable) : PasswordTable[i] = pw

\* a Go error value: nil, or an error with its %v text
NoError == [failed |-> FALSE, detail |-> <<>>]

GoError(detail) == [failed |-> TRUE, detail |-> detail]

\* the %v texts of pdfcpu's errors
ErrMalformed ==
  <<"n","o","t"," ","a"," ","P","D","F">>

ErrAlreadyEncrypted ==
  <<"a","l","r","e","a","d","y"," ","e","n","c","r","y","p","t","e","d">>

ErrNotEncrypted ==
  <<"n","o","t"," ","e","n","c","r","y","p","t","e","d">>

ErrWrongPassword ==
  <<"w","r","o","n","g"," ","p","a","s","s","w","o","r","d">>

\* a plain document's bytes
PlainPDF(id, form) == <<37, 80, id, form>>

\* an encrypted document's bytes
EncryptedPDF(id, upw, opw, permissions) ==
  <<37, 69, id, PwCode(upw), PwCode(opw), permissions \div 256, permissions % 256>>

\* pdfcpu reading a byte stream
ParsePDF(bs) ==
  IF Len(bs) = 4 /\ bs[1] = 37 /\ bs[2] = 80
  THEN [kind |-> "plain", id |-> bs[3], upw |-> "", opw |-> "", permissions |-> 0]
  ELSE IF Len(bs) = 7 /\ bs[1] = 37 /\ bs[2] = 69
          /\ bs[4] \in 1..Len(PasswordTable) /\ bs[5] \in 1..Len(PasswordTable)
  THEN [kind |-> "encrypted", id |-> bs[3], upw |-> PasswordTable[bs[4]],
        opw |-> PasswordTable[bs[5]], permissions |-> bs[6] * 256 + bs[7]]
  ELSE [kind |-> "malformed", id |-> 0, upw |-> "", opw |-> "", permissions |-> 0]

\* model.NewDefaultConfiguration()
NewDefaultConfiguration ==
  [UserPW |-> "", OwnerPW |-> "", EncryptUsingAES |-> TRUE,
   EncryptKeyLength |-> 256, Permissions |-> PermissionsNone]

\* model.NewAESConfiguration(userPW, ownerPW, keyLength)
NewAESConfiguration(userPW, ownerPW, keyLength) ==
  [NewDefaultConfiguration EXCEPT !.UserPW = userPW, !.OwnerPW = ownerPW,
                                  !.EncryptUsingAES = TRUE,
                                  !.EncryptKeyLength = keyLength]

\* api.Encrypt(r, buf, conf): the error returned and the bytes written
apiEncrypt(bs, conf) ==
  LET d == ParsePDF(bs) IN
  IF d.kind = "malformed" THEN [err |-> GoError(ErrMalformed), out |-> <<>>]
  ELSE IF d.kind = "encrypted"
  THEN [err |-> GoError(ErrAlreadyEncrypted), out |-> <<>>]
  ELSE [err |-> NoError,
        out |-> EncryptedPDF(d.id, conf.UserPW, conf.OwnerPW, conf.Permissions)]

\* api.Decrypt(r, buf, conf): either password of the document opens it
apiDecrypt(bs, conf) ==
  LET d == ParsePDF(bs) IN
  IF d.kind = "malformed" THEN [err |-> GoError(ErrMalformed), out |-> <<>>]
  ELSE IF d.kind = "plain" THEN [err |-> GoError(ErrNotEncrypted), out |-> <<>>]
  ELSE IF conf.UserPW = d.upw \/ conf.OwnerPW = d.opw
  THEN [err |-> NoError, out |-> PlainPDF(d.id, 1)]
  ELSE [err |-> GoError(ErrWrongPassword), out |-> <<>>]

\* the %v text of a failure inside pdfcpu that the input does not decide
ErrInternalFault ==
  <<"i","n","t","e","r","n","a","l"," ","f","a","u","l","t">>

\* what one call of api.Decrypt can do: what the document and the passwords
\* decide, or an engine-internal fault
ApiDecryptOutcomes(bs, conf) ==
  { apiDecrypt(bs, conf), [err |-> GoError(ErrInternalFault), out |-> <<>>] }

\* ------------------------------------------------ the Go engine (main.go)
\* keyLength := 256
keyLength == 256

\* C.GoBytes(ptr, size): the first size bytes behind the pointer
GoBytes(buf, size) == SubSeq(buf, 1, IF size <= Len(buf) THEN size ELSE Len(buf))

\* var permissions []string; json.Unmarshal(...): the error is dropped and
\* permissions is whatever was decoded
DecodePermissions(permissionsJSON) == JSONUnmarshal(permissionsJSON).list

\* setCustomPerms with "default" compared as written, not lower-cased
setCustomPermsCaseSensitive(permissions) ==
  IF Len(permissions) > 0
  THEN IF Len(permissions) = 1 /\ permissions[1] = PermDefault
       THEN FALSE
       ELSE TRUE
  ELSE FALSE

\* the value of setCustomPerms after the if of EncryptPDF
setCustomPerms(permissions) ==
  IF Len(permissions) > 0
  THEN IF Len(permissions) = 1 /\ ToLower(permissions[1]) = PermDefault
       THEN FALSE
       ELSE TRUE
  ELSE FALSE

\* the configuration of EncryptPDF with an empty owner password replaced by
\* the user password
EncryptConfEmptyOwnerDefaults(userPw, ownerPw, permissions) ==
  LET conf == NewAESConfiguration(userPw,
                IF ownerPw = "" THEN userPw ELSE ownerPw, keyLength) IN
  IF setCustomPerms(permissions)
  THEN [conf EXCEPT !.Permissions = buildPermissionMask(permissions)]
  ELSE conf

\* the configuration of EncryptPDF with every permission granted when no
\* custom list is set
EncryptConfDefaultAll(userPw, ownerPw, permissions) ==
  LET conf == NewAESConfiguration(userPw, ownerPw, keyLength) IN
  IF setCustomPerms(permissions)
  THEN [conf EXCEPT !.Permissions = buildPermissionMask(permissions)]
  ELSE [conf EXCEPT !.Permissions = PermissionsAll]

\* the configuration EncryptPDF hands to api.Encrypt
EncryptConf(userPw, ownerPw, permissions) ==
  LET conf == NewAESConfiguration(userPw, ownerPw, keyLength) IN
  IF setCustomPerms(permissions)
  THEN [conf EXCEPT !.Permissions = buildPermissionMask(permissions)]
  ELSE conf

\* a char* result of the engine: C.CString(text) is never NULL
CString(text) == [null |-> FALSE, text |-> text]

\* the end of EncryptPDF with the error of api.Encrypt not tested
EncryptReturnIgnoringErr(err, buf) == CString(B64Encode(buf))

\* the end of EncryptPDF: the failure text if api.Encrypt returned an error,
\* the Base64 text of the bytes written otherwise
EncryptReturn(err, buf) ==
  IF err.failed
  THEN CString(EncryptErrorFormat \o err.detail)
  ELSE CString(B64Encode(buf))

\* EncryptPDF returning a failure text when json.Unmarshal returns an error
EncryptPDFRejectingBadJSON(pdfBuffer, pdfBufferSize, userPw, ownerPw, permissionsJSON) ==
  LET pdfBytes == GoBytes(pdfBuffer, pdfBufferSize)
      conf == EncryptConf(userPw, ownerPw, DecodePermissions(permissionsJSON))
      r == apiEncrypt(pdfBytes, conf)
  IN IF ~JSONUnmarshal(permissionsJSON).ok
     THEN CString(EncryptErrorFormat \o <<"b","a","d"," ","J","S","O","N">>)
     ELSE EncryptReturn(r.err, r.out)

\* the exported EncryptPDF
EncryptPDF(pdfBuffer, pdfBufferSize, userPw, ownerPw, permissionsJSON) ==
  LET pdfBytes == GoBytes(pdfBuffer, pdfBufferSize)
      conf == EncryptConf(userPw, ownerPw, DecodePermissions(permissionsJSON))
      r == apiEncrypt(pdfBytes, conf)
  IN EncryptReturn(r.err, r.out)

\* the condition with the test of the first attempt's error missing
SecondAttemptNeededWithoutErrTest(err, password, ownerPw) ==
  ownerPw # "" /\ ownerPw # password

\* the condition of the if that guards DecryptPDF's second attempt
SecondAttemptNeeded(err, password, ownerPw) ==
  err.failed /\ ownerPw # "" /\ ownerPw # password

\* the attempts of DecryptPDF with only the user password set from the
\* primary password (conf.OwnerPW left empty)
DecryptAttemptsUserOnly(pdfBytes, password, ownerPw) ==
  LET first == apiDecrypt(pdfBytes,
                 [NewDefaultConfiguration EXCEPT !.UserPW = password])
      again == SecondAttemptNeeded(first.err, password, ownerPw)
      second == apiDecrypt(pdfBytes,
                  [NewDefaultConfiguration EXCEPT !.UserPW = ownerPw,
                                                  !.OwnerPW = ownerPw])
  IN [attempts |-> IF again THEN 2 ELSE 1, first |-> first,
      final |-> IF again THEN second ELSE first]

\* the attempts of DecryptPDF with the second attempt setting the owner
\* role only (conf.UserPW still the primary password)
DecryptAttemptsOwnerRoleOnly(pdfBytes, password, ownerPw) ==
  LET first == apiDecrypt(pdfBytes,
                 [NewDefaultConfiguration EXCEPT !.UserPW = password,
                                                 !.OwnerPW = password])
      again == SecondAttemptNeeded(first.err, password, ownerPw)
      second == apiDecrypt(pdfBytes,
                  [NewDefaultConfiguration EXCEPT !.UserPW = password,
                                                  !.OwnerPW = ownerPw])
  IN [attempts |-> IF again THEN 2 ELSE 1, first |-> first,
      final |-> IF again THEN second ELSE first]

\* the attempts of DecryptPDF: the first with the primary password in both
\* roles, the second with ownerPw in both roles
DecryptAttempts(pdfBytes, password, ownerPw) ==
  LET first == apiDecrypt(pdfBytes,
                 [NewDefaultConfiguration EXCEPT !.UserPW = password,
                                                 !.OwnerPW = password])
      again == SecondAttemptNeeded(first.err, password, ownerPw)
      second == apiDecrypt(pdfBytes,
                  [NewDefaultConfiguration EXCEPT !.UserPW = ownerPw,
                                                  !.OwnerPW = ownerPw])
  IN [attempts |-> IF again THEN 2 ELSE 1, first |-> first,
      final |-> IF again THEN second ELSE first]

\* the end of DecryptPDF: the failure text if err is still set, the Base64
\* text of the bytes written otherwise
DecryptReturn(err, buf) ==
  IF err.failed
  THEN CString(DecryptErrorFormat \o err.detail)
  ELSE CString(B64Encode(buf))

\* the exported DecryptPDF
DecryptPDF(pdfBuffer, pdfBufferSize, password, ownerPw) ==
  LET r == DecryptAttempts(GoBytes(pdfBuffer, pdfBufferSize), password, ownerPw).final
  IN DecryptReturn(r.err, r.out)

\* -------------------------------------------- the wrapper (index.js)
\* an optional argument: given, or omitted (undefined)
Given(v) == [given |-> TRUE, value |-> v]

Omitted == [given |-> FALSE, value |-> <<>>]

\* a default parameter: the default replaces an omitted argument only
OrDefault(arg, default) == IF arg.given THEN arg.value ELSE default

\* what a wrapper call does: returns a buffer or throws an Error; decoded
\* tells whether Buffer.from(..., 'base64') ran
Returned(buffer) ==
  [kind |-> "returned", buffer |-> buffer, message |-> <<>>, decoded |-> TRUE]

Raised(message) ==
  [kind |-> "raised", buffer |-> <<>>, message |-> message, decoded |-> FALSE]

\* !encodedOutput: null, or the empty string
Falsy(ret) == ret.null \/ ret.text = <<>>

\* getLibraryPath() with the architecture test of the linux branch missing
getLibraryPathAnyLinux(pf, ar) ==
  IF pf = "linux"
  THEN [threw |-> FALSE, path |-> <<"lib", "pdfencrypt_linux.so">>, message |-> <<>>]
  ELSE IF pf = "darwin"
  THEN [threw |-> FALSE,
        path |-> <<"lib", IF ar = "arm64" THEN "pdfencrypt_darwin_arm64.dylib"
                                           ELSE "pdfencrypt_darwin_x64.dylib">>,
        message |-> <<>>]
  ELSE IF pf = "win32" /\ ar = "x64"
  THEN [threw |-> FALSE, path |-> <<"lib", "pdfencrypt_win_x64.dll">>, message |-> <<>>]
  ELSE [threw |-> TRUE, path |-> <<>>,
        message |-> <<"Unsupported platform/architecture: ", pf, "/", ar>>]

\* getLibraryPath(): path.resolve(__dirname, 'lib', libName), or the Error
getLibraryPath(pf, ar) ==
  IF pf = "linux" /\ ar = "x64"
  THEN [threw |-> FALSE, path |-> <<"lib", "pdfencrypt_linux.so">>, message |-> <<>>]
  ELSE IF pf = "darwin"
  THEN [threw |-> FALSE,
        path |-> <<"lib", IF ar = "arm64" THEN "pdfencrypt_darwin_arm64.dylib"
                                           ELSE "pdfencrypt_darwin_x64.dylib">>,
        message |-> <<>>]
  ELSE IF pf = "win32" /\ ar = "x64"
  THEN [threw |-> FALSE, path |-> <<"lib", "pdfencrypt_win_x64.dll">>, message |-> <<>>]
  ELSE [threw |-> TRUE, path |-> <<>>,
        message |-> <<"Unsupported platform/architecture: ", pf, "/", ar>>]

\* the arguments encryptPDF passes to the native EncryptPDF, with the owner
\* password defaulting to the empty text
EncryptArgsOwnerEmpty(pdfBuffer, userPassword, ownerPassword, permissions) ==
  [pdfBuffer |-> pdfBuffer, pdfBufferSize |-> Len(pdfBuffer),
   userPw |-> userPassword,
   ownerPw |-> OrDefault(ownerPassword, ""),
   permissions |-> JSONStringify(OrDefault(permissions, <<PDFPermission.DEFAULT>>))]

\* the arguments encryptPDF passes to the native EncryptPDF
EncryptArgs(pdfBuffer, userPassword, ownerPassword, permissions) ==
  [pdfBuffer |-> pdfBuffer, pdfBufferSize |-> Len(pdfBuffer),
   userPw |-> userPassword,
   ownerPw |-> OrDefault(ownerPassword, userPassword),
   permissions |-> JSONStringify(OrDefault(permissions, <<PDFPermission.DEFAULT>>))]

\* the arguments decryptPDF passes to the native DecryptPDF
DecryptArgs(pdfBuffer, password, ownerPassword) ==
  [pdfBuffer |-> pdfBuffer, pdfBufferSize |-> Len(pdfBuffer),
   password |-> password, ownerPw |-> OrDefault(ownerPassword, "")]

\* encryptPDF after the native call, decoding before the prefix test
encryptPDFResultDecodeFirst(encodedOutput) ==
  IF Falsy(encodedOutput) THEN Raised(EncryptionReturnedNull)
  ELSE Returned(BufferFromBase64(encodedOutput.text))

\* encryptPDF after the native call, the falsy test missing
encryptPDFResultNoNullTest(encodedOutput) ==
  IF StartsWith(encodedOutput.text, ErrorPrefix) THEN Raised(encodedOutput.text)
  ELSE Returned(BufferFromBase64(encodedOutput.text))

\* encryptPDF after the native call: the falsy test, the prefix test, the
\* decoding
encryptPDFResult(encodedOutput) ==
  IF Falsy(encodedOutput) THEN Raised(EncryptionReturnedNull)
  ELSE IF StartsWith(encodedOutput.text, ErrorPrefix) THEN Raised(encodedOutput.text)
  ELSE Returned(BufferFromBase64(encodedOutput.text))

\* decryptPDF after the native call, the prefix test missing
decryptPDFResultNoPrefixTest(encodedOutput) ==
  IF Falsy(encodedOutput) THEN Raised(DecryptionReturnedNull)
  ELSE Returned(BufferFromBase64(encodedOutput.text))

\* decryptPDF after the native call: the falsy test, the prefix test, the
\* decoding
decryptPDFResult(encodedOutput) ==
  IF Falsy(encodedOutput) THEN Raised(DecryptionReturnedNull)
  ELSE IF StartsWith(encodedOutput.text, ErrorPrefix) THEN Raised(encodedOutput.text)
  ELSE Returned(BufferFromBase64(encodedOutput.text))

\* ------------------------------------------------------------ the inputs
Platforms == {"linux", "darwin", "win32", "freebsd"}

Archs == {"x64", "arm64", "ia32"}

\* a byte sequence that is no PDF
Malformed == <<0, 1>>

\* a PDF that was encrypted elsewhere
ForeignEncrypted == EncryptedPDF(2, "owner123", "user123", PermissionsNone)

\* the buffers a caller brings: a PDF, a malformed buffer, an encrypted PDF
CallerBuffers == {PlainPDF(1, 0), Malformed, ForeignEncrypted}

\* the passwords callers encrypt with
EncryptPasswords == {"", "user123", "owner123"}

\* the permission lists callers pass to encryptPDF
CallPermLists == { <<PermPrint, PermCopy>> }

EncryptOwnerArgs == {Omitted} \cup {Given(pw) : pw \in EncryptPasswords}

DecryptOwnerArgs == {Omitted} \cup {Given(pw) : pw \in Passwords}

PermArgs == {Omitted} \cup {Given(l) : l \in CallPermLists}

\* ------------------------------------------------------ the state machine
NoCall == [op |-> "none"]

NotHeld == [held |-> FALSE, buffer |-> <<>>]

Unloaded == [status |-> "unloaded", path |-> <<>>, message |-> <<>>]

\* the state of the process on one of the given hosts, before index.js runs
InitOn(platforms, archs) ==
  /\ platform \in platforms
  /\ arch \in archs
  /\ lib = Unloaded
  /\ enc = NotHeld
  /\ encCall = NoCall
  /\ last = NoCall

\* module load: getLibraryPath(), koffi.load, the two lib.func bindings
LoadLibrary ==
  /\ lib.status = "unloaded"
  /\ last.op = "none"
  /\ LET r == getLibraryPath(platform, arch) IN
     lib' = [status |-> IF r.threw THEN "failed" ELSE "loaded",
             path |-> r.path, message |-> r.message]
  /\ UNCHANGED <<platform, arch, enc, encCall, last>>

\* the record of an encryptPDF call whose native call returned ret
EncryptCall(pdfBuffer, userPassword, ownerPassword, permissions, ret) ==
  LET a == EncryptArgs(pdfBuffer, userPassword, ownerPassword, permissions) IN
  [op |-> "encrypt", pdfBuffer |-> pdfBuffer, password |-> userPassword,
   ownerPassword |-> ownerPassword, permissions |-> permissions,
   native |-> a,
   conf |-> EncryptConf(a.userPw, a.ownerPw, DecodePermissions(a.permissions)),
   attempts |-> 0, ret |-> ret, result |-> encryptPDFResult(ret)]

\* the record of a decryptPDF call whose native call returned ret
DecryptCall(pdfBuffer, password, ownerPassword, ret) ==
  LET a == DecryptArgs(pdfBuffer, password, ownerPassword) IN
  [op |-> "decrypt", pdfBuffer |-> pdfBuffer, password |-> password,
   ownerPassword |-> ownerPassword, permissions |-> Omitted,
   native |-> a,
   conf |-> NewDefaultConfiguration,
   attempts |-> DecryptAttempts(GoBytes(a.pdfBuffer, a.pdfBufferSize),
                                a.password, a.ownerPw).attempts,
   ret |-> ret, result |-> decryptPDFResult(ret)]

\* encryptPDF through the bound engine
EncryptThroughEngine(b, u, o, p) ==
  LET a == EncryptArgs(b, u, o, p) IN
  EncryptCall(b, u, o, p,
    EncryptPDF(a.pdfBuffer, a.pdfBufferSize, a.userPw, a.ownerPw, a.permissions))

\* decryptPDF through an engine that keeps the owner password of the last
\* encryption and tries it when the caller gives no secondary password
DecryptThroughEngineRetaining(b, pw, o) ==
  LET kept == IF ~o.given /\ encCall.op = "encrypt"
              THEN Given(encCall.native.ownerPw) ELSE o
      a == DecryptArgs(b, pw, kept)
  IN DecryptCall(b, pw, o,
       DecryptPDF(a.pdfBuffer, a.pdfBufferSize, a.password, a.ownerPw))

\* decryptPDF through the bound engine
DecryptThroughEngine(b, pw, o) ==
  LET a == DecryptArgs(b, pw, o) IN
  DecryptCall(b, pw, o,
    DecryptPDF(a.pdfBuffer, a.pdfBufferSize, a.password, a.ownerPw))

\* encryptPDF(pdfBuffer, userPassword, ownerPassword, permissions) on a
\* buffer the caller brings; the caller keeps the buffer returned
CallEncrypt ==
  /\ lib.status = "loaded"
  /\ \E b \in CallerBuffers, u \in EncryptPasswords, o \in EncryptOwnerArgs,
        p \in PermArgs :
       LET c == EncryptThroughEngine(b, u, o, p) IN
       /\ last' = c
       /\ IF c.result.kind = "returned"
          THEN /\ enc' = [held |-> TRUE, buffer |-> c.result.buffer]
               /\ encCall' = c
          ELSE /\ enc' = NotHeld
               /\ encCall' = NoCall
  /\ UNCHANGED <<platform, arch, lib>>

\* decryptPDF(pdfBuffer, password, ownerPassword) on a buffer the caller
\* brings
CallDecrypt ==
  /\ lib.status = "loaded"
  /\ \E b \in CallerBuffers, pw \in Passwords, o \in DecryptOwnerArgs :
       last' = DecryptThroughEngine(b, pw, o)
  /\ enc' = NotHeld
  /\ encCall' = NoCall
  /\ UNCHANGED <<platform, arch, lib>>

\* decryptPDF on the buffer the caller's encryptPDF call returned
CallDecryptHeld ==
  /\ lib.status = "loaded"
  /\ enc.held
  /\ \E pw \in Passwords, o \in DecryptOwnerArgs :
       last' = DecryptThroughEngine(enc.buffer, pw, o)
  /\ UNCHANGED <<platform, arch, lib, enc, encCall>>

Init == InitOn({"linux"}, {"x64"})

Next == LoadLibrary \/ CallEncrypt \/ CallDecrypt \/ CallDecryptHeld

\* the wrapper and the engine on a supported host
Spec == Init /\ [][Next]_vars

\* ------------------------------------- the wrapper over any bound library
\* The wrapper binds whatever library file sits at the resolved path; its
\* two checks are exercised with every kind of char* result a bound function
\* can hand back: NULL, the empty text, failure texts, Base64 texts.
NullResult == [null |-> TRUE, text |-> <<>>]

StubResults ==
  { NullResult, CString(<<>>), CString(ErrorPrefix),
    CString(EncryptErrorFormat \o ErrMalformed),
    CString(DecryptErrorFormat \o ErrWrongPassword),
    CString(ToLower(ErrorPrefix)),
    CString(B64Encode(PlainPDF(1, 1))),
    CString(B64Encode(ForeignEncrypted)),
    CString(B64Encode(<<18, 186, 232, 175>>)),
    CString(B64Encode(Malformed)) }

\* encryptPDF with the bound EncryptPDF returning ret
StubEncrypt ==
  /\ lib.status = "loaded"
  /\ \E ret \in StubResults, o \in {Omitted, Given("owner123")} :
       last' = EncryptCall(PlainPDF(1, 0), "user123", o, Omitted, ret)
  /\ UNCHANGED <<platform, arch, lib, enc, encCall>>

\* decryptPDF with the bound DecryptPDF returning ret
StubDecrypt ==
  /\ lib.status = "loaded"
  /\ \E ret \in StubResults, o \in {Omitted, Given("owner123")} :
       last' = DecryptCall(ForeignEncrypted, "user123", o, ret)
  /\ UNCHANGED <<platform, arch, lib, enc, encCall>>

InitWrapper == InitOn(Platforms, Archs)

NextWrapper == LoadLibrary \/ StubEncrypt \/ StubDecrypt

\* the loader and the wrapper on every host, over any bound library
SpecWrapper == InitWrapper /\ [][NextWrapper]_vars

\* ------------------------------------------- the engine's functions alone
\* names as callers may spell them
MixedPrint == <<"P","r","i","n","t">>

UpperDefault == <<"D","E","F","A","U","L","T">>

\* names the README advertises and no table defines
HiResPrint == <<"h","i","_","r","e","s","_","p","r","i","n","t">>

Accessibility == <<"a","c","c","e","s","s","i","b","i","l","i","t","y">>

EngineNames ==
  RecognizedNames \cup {MixedPrint, UpperDefault, HiResPrint, Accessibility}

\* the lists of at most n names
ListsUpTo(n) == UNION {[1..k -> EngineNames] : k \in 0..n}

\* a permission list and passwords for one call of an engine function
InitEngine ==
  /\ platform = "linux"
  /\ arch = "x64"
  /\ lib = Unloaded
  /\ enc = NotHeld
  /\ encCall = NoCall
  /\ \E l \in ListsUpTo(MaxPermLen), o \in {"", "owner123"} :
       last = [op |-> "input", perms |-> l, userPw |-> "user123", ownerPw |-> o]

\* buildPermissionMask(perms)
EngineBuildMask ==
  /\ last.op = "input"
  /\ last' = [op |-> "buildPermissionMask", perms |-> last.perms,
              mask |-> buildPermissionMask(last.perms)]
  /\ UNCHANGED <<platform, arch, lib, enc, encCall>>

\* EncryptPDF(pdf, size, userPw, ownerPw, permissionsJSON) called directly
EngineEncrypt ==
  /\ last.op = "input"
  /\ LET json == JSONStringify(last.perms)
         pdf == PlainPDF(1, 0)
     IN last' = [op |-> "EncryptPDF", perms |-> last.perms,
                 userPw |-> last.userPw, ownerPw |-> last.ownerPw,
                 permissionsJSON |-> json,
                 permissions |-> DecodePermissions(json),
                 setCustomPerms |-> setCustomPerms(DecodePermissions(json)),
                 conf |-> EncryptConf(last.userPw, last.ownerPw,
                                      DecodePermissions(json)),
                 ret |-> EncryptPDF(pdf, Len(pdf), last.userPw, last.ownerPw, json)]
  /\ UNCHANGED <<platform, arch, lib, enc, encCall>>

NextEngine == EngineBuildMask \/ EngineEncrypt

\* the engine's functions over every permission list within the bound
SpecEngine == InitEngine /\ [][NextEngine]_vars

\* ------------------------------------- DecryptPDF, statement by statement
\* One call of the exported DecryptPDF after another, each followed through
\* its locals: conf, err, buf.  api.Decrypt is pdfcpu's; each call of it
\* does one of ApiDecryptOutcomes.  trace lists the calls of api.Decrypt the
\* call has made: the passwords of conf and the error returned.

\* a document encrypted under the harness's passwords
HarnessEncrypted == EncryptedPDF(1, "user123", "owner123", PermissionsNone)

\* a document encrypted with an empty user password
OpenEncrypted == EncryptedPDF(1, "", "owner123", PermissionsNone)

\* the buffers DecryptPDF is called on
DecryptBuffers ==
  { HarnessEncrypted, ForeignEncrypted, OpenEncrypted, PlainPDF(1, 0), Malformed }

\* no char* returned yet
NoResultYet == [null |-> TRUE, text |-> <<>>]

\* the locals of DecryptPDF once the three arguments are converted
DecryptEntry(pdfBytes, password, ownerPw) ==
  [op |-> "DecryptPDF", pc |-> "entry", pdfBytes |-> pdfBytes,
   password |-> password, ownerPw |-> ownerPw,
   conf |-> NewDefaultConfiguration, err |-> NoError, buf |-> <<>>,
   trace |-> <<>>, ret |-> NoResultYet]

\* conf after conf.UserPW = pw; conf.OwnerPW = pw
BothRoles(conf, pw) == [conf EXCEPT !.UserPW = pw, !.OwnerPW = pw]

\* the locals after api.Decrypt with the second attempt's error assigned to
\* a variable of the if block (err := in place of err =)
AfterAttemptShadowedErr(l, conf, outcome, pc) ==
  [l EXCEPT !.pc = pc, !.conf = conf,
            !.err = IF pc = "second" THEN l.err ELSE outcome.err,
            !.buf = outcome.out,
            !.trace = Append(l.trace, [UserPW |-> conf.UserPW,
                                       OwnerPW |-> conf.OwnerPW,
                                       err |-> outcome.err,
                                       out |-> outcome.out])]

\* the locals after api.Decrypt(r, buf, conf) on a fresh reader and buffer
AfterAttempt(l, conf, outcome, pc) ==
  [l EXCEPT !.pc = pc, !.conf = conf, !.err = outcome.err,
            !.buf = outcome.out,
            !.trace = Append(l.trace, [UserPW |-> conf.UserPW,
                                       OwnerPW |-> conf.OwnerPW,
                                       err |-> outcome.err,
                                       out |-> outcome.out])]

InitDecrypt ==
  /\ platform = "linux"
  /\ arch = "x64"
  /\ lib = Unloaded
  /\ enc = NotHeld
  /\ encCall = NoCall
  /\ \E b \in DecryptBuffers, pw \in Passwords, o \in Passwords :
       last = DecryptEntry(GoBytes(b, Len(b)), pw, o)

\* conf := model.NewDefaultConfiguration(); conf.UserPW = password;
\* conf.OwnerPW = password; err := api.Decrypt(r, buf, conf)
DecryptFirstAttempt ==
  /\ last.pc = "entry"
  /\ LET conf == BothRoles(NewDefaultConfiguration, last.password) IN
     \E outcome \in ApiDecryptOutcomes(last.pdfBytes, conf) :
       last' = AfterAttempt(last, conf, outcome, "first")
  /\ UNCHANGED <<platform, arch, lib, enc, encCall>>

\* the body of the if: conf.UserPW = ownerPw; conf.OwnerPW = ownerPw;
\* err = api.Decrypt(r, buf, conf)
DecryptSecondAttempt ==
  /\ last.pc = "first"
  /\ SecondAttemptNeeded(last.err, last.password, last.ownerPw)
  /\ LET conf == BothRoles(last.conf, last.ownerPw) IN
     \E outcome \in ApiDecryptOutcomes(last.pdfBytes, conf) :
       last' = AfterAttempt(last, conf, outcome, "second")
  /\ UNCHANGED <<platform, arch, lib, enc, encCall>>

\* if err != nil { return C.CString(errMsg) }; return C.CString(base64)
DecryptReturning ==
  /\ \/ last.pc = "second"
     \/ /\ last.pc = "first"
        /\ ~SecondAttemptNeeded(last.err, last.password, last.ownerPw)
  /\ last' = [last EXCEPT !.pc = "done", !.ret = DecryptReturn(last.err, last.buf)]
  /\ UNCHANGED <<platform, arch, lib, enc, encCall>>

\* the next call of DecryptPDF
DecryptNextCall ==
  /\ last.pc = "done"
  /\ \E b \in DecryptBuffers, pw \in Passwords, o \in Passwords :
       last' = DecryptEntry(GoBytes(b, Len(b)), pw, o)
  /\ UNCHANGED <<platform, arch, lib, enc, encCall>>

NextDecrypt ==
  DecryptFirstAttempt \/ DecryptSecondAttempt \/ DecryptReturning \/ DecryptNextCall

\* calls of DecryptPDF, one after another
SpecDecrypt == InitDecrypt /\ [][NextDecrypt]_vars

\* ------------------------------------ EncryptPDF on any permissions text
\* The native EncryptPDF takes the permissions as a char*; the wrapper sends
\* JSON.stringify of whatever the caller passed, and any other caller of the
\* library sends any text.

\* texts that are JSON arrays of strings
StringArrayTexts ==
  { <<"[","]">>,
    <<"[","\"","p","r","i","n","t","\"","]">>,
    <<"[","\"","d","e","f","a","u","l","t","\"","]">>,
    <<"["," ","\"","p","r","i","n","t","\""," ",","," ","\"","c","o","p","y","\""," ","]">>,
    <<"[","\"","h","i","_","r","e","s","_","p","r","i","n","t","\"","]">> }

\* texts that are not JSON
InvalidJSONTexts ==
  { <<>>,
    <<"[">>,
    <<"[","\"","p","r","i","n","t","\"">>,
    <<"p","r","i","n","t">>,
    <<"[","\"","p","r","i","n","t","\"",",","]">>,
    <<"[","p","r","i","n","t","]">>,
    <<"n","u","l">>,
    <<"[","\"","p","r","i","n","t","\"","]","x">> }

\* JSON values that are neither an array nor null
NonArrayTexts ==
  { <<"\"","p","r","i","n","t","\"">>,
    <<"{","}">>,
    <<"5">>,
    <<"t","r","u","e">> }

\* JSON arrays that hold an element that is no string
MixedArrayTexts ==
  { <<"[","1",",","\"","a","l","l","\"","]">>,
    <<"[","1","]">>,
    <<"[","n","u","l","l",",","\"","p","r","i","n","t","\"","]">>,
    <<"[","[","\"","p","r","i","n","t","\"","]","]">>,
    <<"[","t","r","u","e","]">> }

\* the text of the array holding a number and "all"
NumberAndAllText == <<"[","1",",","\"","a","l","l","\"","]">>

\* the text of an array that is not closed
UnclosedArrayText == <<"[","\"","p","r","i","n","t","\"">>

\* the permissions texts EncryptPDF is called with
PermissionTexts ==
  StringArrayTexts \cup InvalidJSONTexts \cup NonArrayTexts \cup MixedArrayTexts
    \cup {JSONNull}

InitText ==
  /\ platform = "linux"
  /\ arch = "x64"
  /\ lib = Unloaded
  /\ enc = NotHeld
  /\ encCall = NoCall
  /\ \E t \in PermissionTexts, o \in {"", "owner123"},
        b \in {PlainPDF(1, 0), Malformed} :
       last = [op |-> "input", text |-> t, pdf |-> b, userPw |-> "user123",
               ownerPw |-> o]

\* json.Unmarshal([]byte(permissionsJSON), &permissions)
EngineDecodeText ==
  /\ last.op = "input"
  /\ last' = [op |-> "json.Unmarshal", text |-> last.text,
              ok |-> JSONUnmarshal(last.text).ok,
              permissions |-> DecodePermissions(last.text)]
  /\ UNCHANGED <<platform, arch, lib, enc, encCall>>

\* EncryptPDF(pdf, size, userPw, ownerPw, text) called directly
EngineEncryptText ==
  /\ last.op = "input"
  /\ last' = [op |-> "EncryptPDF", text |-> last.text, pdf |-> last.pdf,
              userPw |-> last.userPw, ownerPw |-> last.ownerPw,
              decoded |-> JSONUnmarshal(last.text).ok,
              permissions |-> DecodePermissions(last.text),
              setCustomPerms |-> setCustomPerms(DecodePermissions(last.text)),
              conf |-> EncryptConf(last.userPw, last.ownerPw,
                                   DecodePermissions(last.text)),
              ret |-> EncryptPDF(last.pdf, Len(last.pdf), last.userPw,
                                 last.ownerPw, last.text)]
  /\ UNCHANGED <<platform, arch, lib, enc, encCall>>

NextText == EngineDecodeText \/ EngineEncryptText

\* the engine's EncryptPDF over permissions texts of every kind
SpecText == InitText /\ [][NextText]_vars

\* ------------------------------------------------- the test harness
\* runTest of test.js, one test after another, against whatever library is
\* bound: each native call returns one of StubResults.  A wrapper call that
\* throws ends the run in the catch of runTest, which calls process.exit(1).

\* the harness's samePassword
samePassword == "samepass456"

\* the tolerance of the round-trip size check
SizeTolerance == 1000

Abs(n) == IF n < 0 THEN 0 - n ELSE n

\* runTest before its first statement
HarnessStart(sampleExists) ==
  [op |-> "runTest", pc |-> "load", sampleExists |-> sampleExists,
   originalBuffer |-> <<>>, encryptedBuffer1 |-> <<>>, decryptedBuffer1 |-> <<>>,
   encryptedBuffer2 |-> <<>>, wrongPasswordAccepted |-> FALSE,
   wrongPasswordRejected |-> FALSE, sizeWarning |-> FALSE,
   completed |-> FALSE, failed |-> FALSE, exited |-> FALSE, status |-> 0]

\* the catch of runTest: "Test failed", process.exit(1)
HarnessCaught(h) ==
  [h EXCEPT !.pc = "ended", !.failed = TRUE, !.exited = TRUE, !.status = 1]

\* runTest returning: the process ends with status 0
HarnessReturned(h) == [h EXCEPT !.pc = "ended", !.exited = TRUE, !.status = 0]

InitHarness ==
  /\ platform = "linux"
  /\ arch = "x64"
  /\ lib = [status |-> "loaded", path |-> getLibraryPath("linux", "x64").path,
            message |-> <<>>]
  /\ enc = NotHeld
  /\ encCall = NoCall
  /\ \E sampleExists \in BOOLEAN : last = HarnessStart(sampleExists)

\* fs.existsSync(pdfPath), fs.readFileSync(pdfPath)
HarnessLoadSample ==
  /\ last.op = "runTest" /\ last.pc = "load"
  /\ last' = IF last.sampleExists
             THEN [last EXCEPT !.pc = "test1", !.originalBuffer = PlainPDF(1, 0)]
             ELSE HarnessReturned(last)
  /\ UNCHANGED <<platform, arch, lib, enc, encCall>>

\* Test 1: encryptPDF(originalBuffer, userPassword, ownerPassword,
\* [PDFPermission.PRINT, PDFPermission.COPY])
HarnessTest1 ==
  /\ last.op = "runTest" /\ last.pc = "test1"
  /\ \E ret \in StubResults :
       LET c == EncryptCall(last.originalBuffer, "user123", Given("owner123"),
                            Given(<<PDFPermission.PRINT, PDFPermission.COPY>>), ret)
       IN last' = IF c.result.kind = "raised" THEN HarnessCaught(last)
                  ELSE [last EXCEPT !.pc = "test2",
                                    !.encryptedBuffer1 = c.result.buffer]
  /\ UNCHANGED <<platform, arch, lib, enc, encCall>>

\* Test 2: decryptPDF(encryptedBuffer1, userPassword)
HarnessTest2 ==
  /\ last.op = "runTest" /\ last.pc = "test2"
  /\ \E ret \in StubResults :
       LET c == DecryptCall(last.encryptedBuffer1, "user123", Omitted, ret)
       IN last' = IF c.result.kind = "raised" THEN HarnessCaught(last)
                  ELSE [last EXCEPT !.pc = "test3",
                                    !.decryptedBuffer1 = c.result.buffer]
  /\ UNCHANGED <<platform, arch, lib, enc, encCall>>

\* Test 3: decryptPDF(encryptedBuffer1, ownerPassword)
HarnessTest3 ==
  /\ last.op = "runTest" /\ last.pc = "test3"
  /\ \E ret \in StubResults :
       LET c == DecryptCall(last.encryptedBuffer1, "owner123", Omitted, ret)
       IN last' = IF c.result.kind = "raised" THEN HarnessCaught(last)
                  ELSE [last EXCEPT !.pc = "test4"]
  /\ UNCHANGED <<platform, arch, lib, enc, encCall>>

\* Test 4: try { decryptPDF(encryptedBuffer1, "wrongpassword");
\* console.log("ERROR: Should have failed ...") } catch (err) { console.log(
\* "Correctly rejected wrong password") }
HarnessTest4 ==
  /\ last.op = "runTest" /\ last.pc = "test4"
  /\ \E ret \in StubResults :
       LET c == DecryptCall(last.encryptedBuffer1, "wrongpassword", Omitted, ret)
       IN last' = IF c.result.kind = "raised"
                  THEN [last EXCEPT !.pc = "test5", !.wrongPasswordRejected = TRUE]
                  ELSE [last EXCEPT !.pc = "test5", !.wrongPasswordAccepted = TRUE]
  /\ UNCHANGED <<platform, arch, lib, enc, encCall>>

\* Test 5, first call: encryptPDF(originalBuffer, samePassword, samePassword,
\* [PDFPermission.ALL])
HarnessTest5Encrypt ==
  /\ last.op = "runTest" /\ last.pc = "test5"
  /\ \E ret \in StubResults :
       LET c == EncryptCall(last.originalBuffer, samePassword, Given(samePassword),
                            Given(<<PDFPermission.ALL>>), ret)
       IN last' = IF c.result.kind = "raised" THEN HarnessCaught(last)
                  ELSE [last EXCEPT !.pc = "test5decrypt",
                                    !.encryptedBuffer2 = c.result.buffer]
  /\ UNCHANGED <<platform, arch, lib, enc, encCall>>

\* Test 5, second call: decryptPDF(encryptedBuffer2, samePassword)
HarnessTest5Decrypt ==
  /\ last.op = "runTest" /\ last.pc = "test5decrypt"
  /\ \E ret \in StubResults :
       LET c == DecryptCall(last.encryptedBuffer2, samePassword, Omitted, ret)
       IN last' = IF c.result.kind = "raised" THEN HarnessCaught(last)
                  ELSE [last EXCEPT !.pc = "test6"]
  /\ UNCHANGED <<platform, arch, lib, enc, encCall>>

\* Test 6: the size check, which only logs
HarnessTest6 ==
  /\ last.op = "runTest" /\ last.pc = "test6"
  /\ last' = [last EXCEPT
                 !.pc = "summary",
                 !.sizeWarning =
                   ~(Abs(Len(last.originalBuffer) - Len(last.decryptedBuffer1))
                       < SizeTolerance)]
  /\ UNCHANGED <<platform, arch, lib, enc, encCall>>

\* the summary: "All tests completed successfully!", and runTest returns
HarnessSummary ==
  /\ last.op = "runTest" /\ last.pc = "summary"
  /\ last' = HarnessReturned([last EXCEPT !.completed = TRUE])
  /\ UNCHANGED <<platform, arch, lib, enc, encCall>>

NextHarness ==
  \/ HarnessLoadSample \/ HarnessTest1 \/ HarnessTest2 \/ HarnessTest3
  \/ HarnessTest4 \/ HarnessTest5Encrypt \/ HarnessTest5Decrypt
  \/ HarnessTest6 \/ HarnessSummary

\* one run of the test harness over any bound library
SpecHarness == InitHarness /\ [][NextHarness]_vars

\* ------------------------------------------------------------ the claims
\* the last call was decryptPDF on the buffer the caller's encryptPDF call
\* returned
DecryptedHeld ==
  /\ last.op = "decrypt"
  /\ enc.held
  /\ encCall.op = "encrypt"
  /\ last.pdfBuffer = enc.buffer

\* the passwords the held buffer was encrypted under, as the engine got them
HeldPasswords == {encCall.native.userPw, encCall.native.ownerPw}

\* C1's case: a primary password that is neither password of the document,
\* and a secondary that is empty, the same, or also neither
WrongPasswordCase ==
  /\ DecryptedHeld
  /\ last.native.password \notin HeldPasswords
  /\ \/ last.native.ownerPw = ""
     \/ last.native.ownerPw = last.native.password
     \/ last.native.ownerPw \notin HeldPasswords

\* C1: decryptPDF on a document encrypted by encryptPDF under U and O, with a
\* primary password that is neither and a secondary that is empty, equal to
\* the primary or also neither, throws a decryption error and returns no
\* buffer.
C1_WrongPasswordRejected ==
  WrongPasswordCase =>
    /\ last.result.kind = "raised"
    /\ StartsWith(last.result.message, DecryptErrorFormat)
    /\ ~last.result.decoded

C1_Witness ==
  /\ WrongPasswordCase
  /\ encCall.native.userPw = "user123"
  /\ encCall.native.ownerPw = "owner123"
  /\ last.password = "wrongpassword"
  /\ last.result.kind = "raised"

\* C2's case: distinct passwords, and the owner password as the primary
OwnerPasswordCase ==
  /\ DecryptedHeld
  /\ encCall.native.userPw # encCall.native.ownerPw
  /\ last.native.password = encCall.native.ownerPw

\* C2: for distinct U and O, decryptPDF with O succeeds on the first attempt
\* and returns what decryptPDF with U returns.
C2_OwnerPasswordEquivalence ==
  OwnerPasswordCase =>
    LET withUser == DecryptThroughEngine(enc.buffer, encCall.native.userPw, Omitted)
    IN /\ last.result.kind = "returned"
       /\ last.attempts = 1
       /\ withUser.result.kind = "returned"
       /\ last.result.buffer = withUser.result.buffer

C2_Witness ==
  /\ OwnerPasswordCase
  /\ encCall.native.userPw = "user123"
  /\ last.password = "owner123"
  /\ ~last.ownerPassword.given
  /\ last.result.kind = "returned"
  /\ last.result.buffer = PlainPDF(1, 1)

\* a wrapper call whose native call returned a text beginning with "Error"
ErrorTextCase ==
  /\ last.op \in {"encrypt", "decrypt"}
  /\ ~last.ret.null
  /\ StartsWith(last.ret.text, ErrorPrefix)

\* C4: a native result beginning with "Error" makes the wrapper throw an
\* Error whose message is exactly that text, and Buffer.from is not reached.
C4_ErrorPrefixRaised ==
  ErrorTextCase =>
    /\ last.result.kind = "raised"
    /\ last.result.message = last.ret.text
    /\ ~last.result.decoded

C4_Witness ==
  /\ ErrorTextCase
  /\ last.op = "encrypt"
  /\ last.ret.text = EncryptErrorFormat \o ErrMalformed
  /\ last.result.kind = "raised"

\* C5: a native call that returns no text makes encryptPDF throw "Encryption
\* returned null" and decryptPDF throw "Decryption returned null", without
\* decoding, and neither message is an "Error"-prefixed engine text.
C5_NullResultRaised ==
  (last.op \in {"encrypt", "decrypt"} /\ last.ret.null) =>
    /\ last.result.kind = "raised"
    /\ ~last.result.decoded
    /\ last.op = "encrypt" => last.result.message = EncryptionReturnedNull
    /\ last.op = "decrypt" => last.result.message = DecryptionReturnedNull
    /\ ~StartsWith(last.result.message, ErrorPrefix)

C5_Witness ==
  /\ last.op = "encrypt"
  /\ last.ret.null
  /\ last.result.kind = "raised"
  /\ last.result.message = EncryptionReturnedNull

\* C6: encryptPDF(P, pw) with the owner password omitted passes the native
\* EncryptPDF the arguments encryptPDF(P, pw, pw) passes, and ends the same.
C6_OwnerPasswordDefaulting ==
  (last.op = "encrypt" /\ ~last.ownerPassword.given) =>
    LET both == EncryptThroughEngine(last.pdfBuffer, last.password,
                                     Given(last.password), last.permissions)
    IN /\ last.native = both.native
       /\ last.native.ownerPw = last.password
       /\ last.ret = both.ret
       /\ last.result = both.result

C6_Witness ==
  /\ last.op = "encrypt"
  /\ ~last.ownerPassword.given
  /\ ~last.permissions.given
  /\ last.password = "user123"
  /\ last.native.ownerPw = "user123"
  /\ last.result.kind = "returned"

\* an encryptPDF call with the owner password supplied as the empty text
EmptyOwnerCase ==
  /\ last.op = "encrypt"
  /\ last.ownerPassword.given
  /\ last.ownerPassword.value = ""

\* C7 as stated: with an explicitly empty owner password the configuration
\* the engine builds has the user password as its owner password.
C7_AsStated == EmptyOwnerCase => last.conf.OwnerPW = last.password

\* C7 amended: the configuration's owner password is the user password when
\* the owner password argument is omitted, and is the supplied text, the
\* empty text included, when it is given.
C7_OwnerPasswordPassedThrough ==
  last.op = "encrypt" =>
    /\ last.conf.UserPW = last.password
    /\ ~last.ownerPassword.given => last.conf.OwnerPW = last.password
    /\ last.ownerPassword.given => last.conf.OwnerPW = last.ownerPassword.value

C7_Witness ==
  /\ EmptyOwnerCase
  /\ last.password = "user123"
  /\ last.conf.OwnerPW = ""
  /\ last.result.kind = "returned"

\* C8: EncryptPDF with the list [] and with the list ["default"] build
\* configurations with the same permission mask, the all-zero mask.
C8_DefaultPermissionEquivalence ==
  (last.op = "EncryptPDF" /\ last.permissions \in {<<>>, <<PermDefault>>}) =>
    /\ last.conf.Permissions = PermissionsNone
    /\ last.conf.Permissions = 0

C8_Witness ==
  /\ last.op = "EncryptPDF"
  /\ last.permissions = <<PermDefault>>
  /\ last.conf.Permissions = 0
  /\ ~StartsWith(last.ret.text, ErrorPrefix)

\* the flag the switch of buildPermissionMask gives a lower-case name
FlagOfName(name) ==
  CASE name = PermPrint -> PermissionPrintRev3
    [] name = PermCopy -> PermissionExtract
    [] name = PermAnnotate -> PermissionModAnnFillForm
    [] name = PermForms -> PermissionFillRev3
    [] name = PermAssemble -> PermissionAssembleRev3
    [] name = PermAll -> PermissionsAll
    [] name = PermModify -> PermissionModify
    [] name = PermDefault -> PermissionsNone
    [] OTHER -> 0

\* whether bit k (from 0) of a flag value is set
HasBit(v, k) == (v \div (2 ^ k)) % 2 = 1

\* the bits a permission mask can hold
MaskBits == 0..15

\* C9: buildPermissionMask returns the bitwise OR of the flags of the
\* recognized names of the list and no other bit: print and copy alone for
\* ["print","copy"], the all-permissions value for ["all"], zero for a list
\* with no recognized name.
C9_MaskComposition ==
  last.op = "buildPermissionMask" =>
    /\ last.mask \in 0..(2 ^ 16 - 1)
    /\ \A k \in MaskBits :
         HasBit(last.mask, k) <=>
           \E i \in 1..Len(last.perms) :
              HasBit(FlagOfName(ToLower(last.perms[i])), k)
    /\ last.perms = <<PermPrint, PermCopy>> =>
         last.mask = PermissionPrintRev3 + PermissionExtract
    /\ last.perms = <<PermAll>> => last.mask = PermissionsAll
    /\ (\A i \in 1..Len(last.perms) : ToLower(last.perms[i]) \notin RecognizedNames)
         => last.mask = 0

C9_Witness ==
  /\ last.op = "buildPermissionMask"
  /\ last.perms = <<PermPrint, PermCopy>>
  /\ last.mask = PermissionPrintRev3 + PermissionExtract

\* the artifact of a supported host
ArtifactOf(pf, ar) ==
  CASE pf = "linux" /\ ar = "x64" -> "pdfencrypt_linux.so"
    [] pf = "darwin" /\ ar = "arm64" -> "pdfencrypt_darwin_arm64.dylib"
    [] pf = "darwin" /\ ar # "arm64" -> "pdfencrypt_darwin_x64.dylib"
    [] pf = "win32" /\ ar = "x64" -> "pdfencrypt_win_x64.dll"

SupportedHost(pf, ar) ==
  \/ pf = "linux" /\ ar = "x64"
  \/ pf = "darwin"
  \/ pf = "win32" /\ ar = "x64"

\* C10: getLibraryPath resolves the four supported hosts to their artifact
\* under lib, and for every other host throws an Error naming the platform
\* and the architecture and yields no path.
C10_PlatformResolution ==
  lib.status # "unloaded" =>
    IF SupportedHost(platform, arch)
    THEN /\ lib.status = "loaded"
         /\ lib.path = <<"lib", ArtifactOf(platform, arch)>>
    ELSE /\ lib.status = "failed"
         /\ lib.path = <<>>
         /\ \E i, j \in 1..Len(lib.message) :
              lib.message[i] = platform /\ lib.message[j] = arch

C10_Witness ==
  /\ lib.status = "failed"
  /\ platform = "linux"
  /\ arch = "arm64"
  /\ lib.message = <<"Unsupported platform/architecture: ", "linux", "/", "arm64">>

\* a call of DecryptPDF that has run its first attempt
Attempted == last.op = "DecryptPDF" /\ last.pc # "entry"

\* a call of DecryptPDF that has returned
DecryptDone == last.op = "DecryptPDF" /\ last.pc = "done"

\* C11: every DecryptPDF call makes a first attempt with the primary
\* password in both roles; a second attempt, with the secondary password in
\* both roles, is made if and only if the first failed, the secondary is
\* non-empty and it differs from the primary; there are never more than two
\* attempts; when the first attempt succeeds its output is the result,
\* whatever the secondary password.
C11_AttemptProtocol ==
  /\ last.op = "DecryptPDF" => Len(last.trace) <= 2
  /\ Attempted =>
       /\ Len(last.trace) >= 1
       /\ last.trace[1].UserPW = last.password
       /\ last.trace[1].OwnerPW = last.password
       /\ Len(last.trace) = 2 =>
            /\ last.trace[1].err.failed
            /\ last.ownerPw # ""
            /\ last.ownerPw # last.password
            /\ last.trace[2].UserPW = last.ownerPw
            /\ last.trace[2].OwnerPW = last.ownerPw
  /\ DecryptDone =>
       /\ (last.trace[1].err.failed /\ last.ownerPw # ""
             /\ last.ownerPw # last.password) => Len(last.trace) = 2
       /\ ~last.trace[1].err.failed =>
            /\ Len(last.trace) = 1
            /\ last.ret = CString(B64Encode(last.trace[1].out))

C11_Witness ==
  /\ DecryptDone
  /\ last.pdfBytes = HarnessEncrypted
  /\ last.password = "wrongpassword"
  /\ last.ownerPw = "owner123"
  /\ Len(last.trace) = 2
  /\ last.trace[1].err.failed
  /\ last.trace[2].UserPW = "owner123"
  /\ ~last.trace[2].err.failed

\* C12's case: a primary password that is neither password of the document
\* and a secondary password that is one of them
SecondaryMatchesCase ==
  /\ DecryptedHeld
  /\ last.ownerPassword.given
  /\ last.native.password \notin HeldPasswords
  /\ last.native.ownerPw \in HeldPasswords

\* C12 as stated: decryptPDF(enc, W, S) with W neither U nor O and S equal to
\* U or to O returns the decrypted buffer.
C12_AsStated == SecondaryMatchesCase => last.result.kind = "returned"

\* C12 amended: with W neither U nor O and a non-empty S equal to U or to O,
\* decryptPDF(enc, W, S) makes two attempts and returns the buffer that
\* decryptPDF(enc, S) returns; the first attempt's failure is not surfaced.
C12_FallbackSucceeds ==
  (SecondaryMatchesCase /\ last.native.ownerPw # "") =>
    LET direct == DecryptThroughEngine(enc.buffer, last.native.ownerPw, Omitted)
    IN /\ last.attempts = 2
       /\ last.result.kind = "returned"
       /\ ~StartsWith(last.ret.text, ErrorPrefix)
       /\ direct.result.kind = "returned"
       /\ last.result.buffer = direct.result.buffer
       /\ ParsePDF(last.result.buffer).kind = "plain"

C12_Witness ==
  /\ SecondaryMatchesCase
  /\ encCall.native.userPw = "user123"
  /\ encCall.native.ownerPw = "owner123"
  /\ last.password = "wrongpassword"
  /\ last.ownerPassword = Given("user123")
  /\ last.attempts = 2
  /\ last.result.kind = "returned"
  /\ last.result.buffer = PlainPDF(1, 1)

\* whether sub occurs in the text t
Contains(t, sub) ==
  \E i \in 1..(Len(t) + 1) :
    i + Len(sub) - 1 <= Len(t) /\ SubSeq(t, i, i + Len(sub) - 1) = sub

\* a call of DecryptPDF that returned after two failed attempts
BothAttemptsFailed ==
  /\ DecryptDone
  /\ Len(last.trace) = 2
  /\ last.trace[1].err.failed
  /\ last.trace[2].err.failed

\* C13: when DecryptPDF makes two attempts and both fail, the text returned
\* is "Error decrypting PDF: " followed by the second attempt's detail, and
\* the first attempt's detail, where it is another one, occurs nowhere in
\* it; when the only attempt fails, its detail is the one returned.
C13_SecondFailureSurfaced ==
  /\ BothAttemptsFailed =>
       /\ last.ret = CString(DecryptErrorFormat \o last.trace[2].err.detail)
       /\ last.trace[1].err.detail # last.trace[2].err.detail =>
            ~Contains(last.ret.text, last.trace[1].err.detail)
  /\ (DecryptDone /\ Len(last.trace) = 1 /\ last.trace[1].err.failed) =>
       last.ret = CString(DecryptErrorFormat \o last.trace[1].err.detail)

C13_Witness ==
  /\ BothAttemptsFailed
  /\ last.trace[1].err.detail = ErrInternalFault
  /\ last.trace[2].err.detail = ErrWrongPassword
  /\ last.ret.text = DecryptErrorFormat \o ErrWrongPassword

\* the list is exactly one element that is "default" in some letter case
SoleDefault(l) == Len(l) = 1 /\ ToLower(l[1]) = PermDefault

\* C14: EncryptPDF overwrites the permission field of the configuration
\* with buildPermissionMask(list) if and only if the decoded list is
\* non-empty and is not one element equal, without regard to case, to
\* "default"; otherwise the field of the freshly built configuration is left
\* as it was, and no other field is touched.  ["DEFAULT"] leaves it,
\* ["default","default"] and ["default","print"] overwrite it.
C14_CallSitePermissionRule ==
  last.op = "EncryptPDF" =>
    LET l == last.permissions
        fresh == NewAESConfiguration(last.userPw, last.ownerPw, keyLength)
    IN /\ last.setCustomPerms <=> (l # <<>> /\ ~SoleDefault(l))
       /\ last.setCustomPerms =>
            last.conf = [fresh EXCEPT !.Permissions = buildPermissionMask(l)]
       /\ ~last.setCustomPerms => last.conf = fresh
       /\ l = <<UpperDefault>> => ~last.setCustomPerms
       /\ l = <<PermDefault, PermDefault>> => last.setCustomPerms
       /\ l = <<PermDefault, PermPrint>> =>
            last.setCustomPerms /\ last.conf.Permissions = PermissionPrintRev3

C14_Witness ==
  /\ last.op = "EncryptPDF"
  /\ last.permissions = <<PermDefault, PermPrint>>
  /\ last.setCustomPerms
  /\ last.conf.Permissions = PermissionPrintRev3
  /\ last.conf.OwnerPW = last.ownerPw

\* a name the switch of buildPermissionMask has a case for
IsRecognized(p) == ToLower(p) \in RecognizedNames

UpperChar(c) ==
  IF \E i \in 1..26 : Lower[i] = c
  THEN Upper[CHOOSE i \in 1..26 : Lower[i] = c]
  ELSE c

\* a name in upper case
ToUpper(t) == [i \in 1..Len(t) |-> UpperChar(t[i])]

\* a name that is not "default" in any letter case
NotDefault(p) == ToLower(p) # PermDefault

\* C16: buildPermissionMask gives the mask of L for every permutation of L,
\* for L with an entry repeated, for L with an entry changed in case, and
\* for L with "default" added at either end or removed; ["default"] alone
\* gives zero.
C16_MaskInsensitivity ==
  last.op = "buildPermissionMask" =>
    LET l == last.perms
        m == last.mask
        n == Len(l)
    IN /\ \A f \in Permutations(1..n) :
            buildPermissionMask([i \in 1..n |-> l[f[i]]]) = m
       /\ \A i \in 1..n :
            /\ buildPermissionMask(Append(l, l[i])) = m
            /\ buildPermissionMask(<<l[i]>> \o l) = m
            /\ buildPermissionMask([l EXCEPT ![i] = ToUpper(l[i])]) = m
            /\ buildPermissionMask([l EXCEPT ![i] = ToLower(l[i])]) = m
       /\ buildPermissionMask(Append(l, PermDefault)) = m
       /\ buildPermissionMask(<<PermDefault>> \o l) = m
       /\ buildPermissionMask(SelectSeq(l, NotDefault)) = m
       /\ l = <<PermDefault>> => m = 0

C16_Witness ==
  /\ last.op = "buildPermissionMask"
  /\ last.perms = <<MixedPrint, PermDefault>>
  /\ last.mask = PermissionPrintRev3
  /\ buildPermissionMask(<<PermDefault, PermPrint, PermPrint>>) = last.mask

\* a text of Base64 characters only, the padding at its end
IsBase64Text(t) ==
  /\ Len(t) % 4 = 0
  /\ \A i \in 1..Len(t) :
       \/ IsB64Char(t[i])
       \/ t[i] = B64Pad /\ i >= Len(t) - 1 /\ (i = Len(t) \/ t[i + 1] = B64Pad)

\* what pdfcpu did in the last call of an engine function: the error of
\* api.Encrypt, or of the last api.Decrypt, and the bytes written
UnderlyingOutcome ==
  LET a == last.native
      pdfBytes == GoBytes(a.pdfBuffer, a.pdfBufferSize)
  IN IF last.op = "encrypt"
     THEN apiEncrypt(pdfBytes, last.conf)
     ELSE DecryptAttempts(pdfBytes, a.password, a.ownerPw).final

\* C17: every call of the native EncryptPDF or DecryptPDF returns one
\* non-null text: the Base64 encoding of the bytes written when the
\* underlying operation succeeded, and otherwise "Error encrypting PDF: " or
\* "Error decrypting PDF: " followed by the error; a failure never yields
\* Base64 data and a success never yields a text beginning with "Error".
C17_EngineResultConvention ==
  last.op \in {"encrypt", "decrypt"} =>
    LET r == UnderlyingOutcome
        format == IF last.op = "encrypt" THEN EncryptErrorFormat
                                         ELSE DecryptErrorFormat
    IN /\ ~last.ret.null
       /\ r.err.failed =>
            /\ last.ret.text = format \o r.err.detail
            /\ StartsWith(last.ret.text, ErrorPrefix)
            /\ ~IsBase64Text(last.ret.text)
       /\ ~r.err.failed =>
            /\ last.ret.text = B64Encode(r.out)
            /\ IsBase64Text(last.ret.text)
            /\ BufferFromBase64(last.ret.text) = r.out
            /\ ~StartsWith(last.ret.text, ErrorPrefix)

C17_Witness ==
  /\ last.op = "encrypt"
  /\ last.pdfBuffer = ForeignEncrypted
  /\ UnderlyingOutcome.err.failed
  /\ last.ret.text = EncryptErrorFormat \o ErrAlreadyEncrypted
  /\ ~last.ret.null

\* the native result and the outcome of a call when it is the only call the
\* process makes: computed from the call's own arguments
AloneOutcome(c) ==
  IF c.op = "encrypt"
  THEN LET a == EncryptArgs(c.pdfBuffer, c.password, c.ownerPassword, c.permissions)
           ret == EncryptPDF(a.pdfBuffer, a.pdfBufferSize, a.userPw, a.ownerPw,
                             a.permissions)
       IN [native |-> a, ret |-> ret, result |-> encryptPDFResult(ret)]
  ELSE LET a == DecryptArgs(c.pdfBuffer, c.password, c.ownerPassword)
           ret == DecryptPDF(a.pdfBuffer, a.pdfBufferSize, a.password, a.ownerPw)
       IN [native |-> a, ret |-> ret, result |-> decryptPDFResult(ret)]

\* the arguments of two calls are the same
SameCall(c, d) ==
  /\ c.op = d.op
  /\ c.pdfBuffer = d.pdfBuffer
  /\ c.password = d.password
  /\ c.ownerPassword = d.ownerPassword
  /\ c.permissions = d.permissions

\* what a step of the process must respect for its calls to be independent
IndependentStep ==
  /\ lib.status # "unloaded" => lib' = lib
  /\ last'.op \in {"encrypt", "decrypt"} =>
       /\ last'.native = AloneOutcome(last').native
       /\ last'.ret = AloneOutcome(last').ret
       /\ last'.result = AloneOutcome(last').result
  /\ (last.op \in {"encrypt", "decrypt"} /\ last'.op \in {"encrypt", "decrypt"}
       /\ SameCall(last, last')) =>
         last'.ret = last.ret /\ last'.result = last.result

C19_WrongPasswordAcceptedFailsRun ==
  (last.op = "runTest" /\ last.wrongPasswordAccepted /\ last.exited) =>
    /\ ~last.completed
    /\ last.status # 0

\* the last call was EncryptPDF and ended as EncryptPDF with the text []
\* ends: an empty list, the permission field not written, the same result
EndsAsEmptyList ==
  /\ last.permissions = <<>>
  /\ ~last.setCustomPerms
  /\ last.conf = NewAESConfiguration(last.userPw, last.ownerPw, keyLength)
  /\ last.ret = EncryptPDF(last.pdf, Len(last.pdf), last.userPw, last.ownerPw,
                           <<"[", "]">>)

\* C20 as stated: whenever the permissions text is not a JSON array of
\* strings, the list is treated as empty, the permission field is left
\* untouched and the result is that of the list [].
C20_AsStated ==
  (last.op = "EncryptPDF" /\ last.text \notin StringArrayTexts) => EndsAsEmptyList

\* C20 amended: when the text is not valid JSON, is null, or is a JSON value
\* that is no array, the decoding failure is discarded and EncryptPDF ends
\* as it does for []; when it is an array holding elements that are no
\* strings, the failure is discarded as well, but the list is decoded with
\* the empty name in place of each such element and EncryptPDF ends as it
\* does for that list, so [1,"all"] grants every permission.
C20_MalformedPermissionsNotAnError ==
  last.op = "EncryptPDF" =>
    /\ last.text \in InvalidJSONTexts \cup NonArrayTexts \cup {JSONNull} =>
         /\ EndsAsEmptyList
         /\ last.text # JSONNull => ~last.decoded
    /\ last.text \in MixedArrayTexts =>
         /\ last.permissions # <<>>
         /\ \E i \in 1..Len(last.permissions) : last.permissions[i] = <<>>
         /\ last.ret = EncryptPDF(last.pdf, Len(last.pdf), last.userPw,
                                  last.ownerPw, JSONStringify(last.permissions))
    /\ last.text = NumberAndAllText =>
         /\ ~last.decoded
         /\ last.permissions = << <<>>, PermAll >>
         /\ last.conf.Permissions = PermissionsAll
    /\ last.pdf = PlainPDF(1, 0) => ~StartsWith(last.ret.text, ErrorPrefix)

C20_Witness ==
  /\ last.op = "EncryptPDF"
  /\ last.text = UnclosedArrayText
  /\ last.pdf = PlainPDF(1, 0)
  /\ ~last.decoded
  /\ last.permissions = <<>>
  /\ last.conf.Permissions = PermissionsNone
  /\ ~StartsWith(last.ret.text, ErrorPrefix)

====
